---- MODULE Spec2Model ----
\* The extraction-and-scoring pipeline of PYRO_ARTIFACT_PACK_ANALYSIS.py
\* (class PyroArtifactPackAnalyzer): archive loading, the four extraction
\* passes, the registries they aggregate into, the priority scorer and the
\* report emitter.
\*
\* Text is a sequence of one-character strings, so that the regular
\* expressions of the source are computed on the characters they match.
EXTENDS Integers, Sequences, FiniteSets, TLC

\* ---------------------------------------------------------------- bounds

\* The largest number of configuration files in one bundle.
MaxFiles == 2

\* ------------------------------------------------------------------ text

UpperCase ==
  <<"A","B","C","D","E","F","G","H","I","J","K","L","M",
    "N","O","P","Q","R","S","T","U","V","W","X","Y","Z">>

LowerCase ==
  <<"a","b","c","d","e","f","g","h","i","j","k","l","m",
    "n","o","p","q","r","s","t","u","v","w","x","y","z">>

Digits == {"0","1","2","3","4","5","6","7","8","9"}

\* \w of the re module, on ASCII text.
WordChars ==
  {UpperCase[i] : i \in 1..26} \cup {LowerCase[i] : i \in 1..26}
    \cup Digits \cup {"_"}

\* \s of the re module, on ASCII text.
WhiteSpace == {" ", "\t", "\n", "\r", "\f"}

\* A sequence given by a rule, as the tuple of its elements: Python computes
\* a list or a string when it builds it, not when it is read.
Tuple(f) == f \o << >>

\* One character under re.IGNORECASE, and of str.lower().
LowerChar(c) ==
  IF \E i \in 1..26 : UpperCase[i] = c
  THEN LowerCase[CHOOSE i \in 1..26 : UpperCase[i] = c]
  ELSE c

\* str.lower()
lower(s) == Tuple([i \in 1..Len(s) |-> LowerChar(s[i])])

\* The literal lit matches text at position i, case-insensitively.
MatchLit(text, i, lit) ==
  /\ i >= 1
  /\ i + Len(lit) - 1 <= Len(text)
  /\ \A j \in 1..Len(lit) : LowerChar(text[i + j - 1]) = LowerChar(lit[j])

\* `lit in s` of Python: lit occurs in s (case-sensitively).
Contains(s, lit) ==
  \E i \in 1..(Len(s) - Len(lit) + 1) :
    \A j \in 1..Len(lit) : s[i + j - 1] = lit[j]

\* The length of the longest run of characters outside excl that starts at i:
\* what a greedy [^...]+ consumes.
RunLen(text, i, excl) ==
  LET stops == {j \in i..Len(text) : text[j] \in excl}
  IN IF stops = {} THEN Len(text) - i + 1
     ELSE (CHOOSE j \in stops : \A x \in stops : j <= x) - i

\* The length of the longest run of word characters that starts at i: what a
\* greedy \w+ consumes.
WordRunLen(text, i) ==
  LET stops == {j \in i..Len(text) : text[j] \notin WordChars}
  IN IF stops = {} THEN Len(text) - i + 1
     ELSE (CHOOSE j \in stops : \A x \in stops : j <= x) - i

\* The length of the first of the alternatives alts that matches text at i,
\* or -1 when none does.
PrefixLen(text, i, alts) ==
  IF \E a \in 1..Len(alts) : MatchLit(text, i, alts[a])
  THEN Len(alts[CHOOSE a \in 1..Len(alts) :
                  /\ MatchLit(text, i, alts[a])
                  /\ \A b \in 1..(a - 1) : ~MatchLit(text, i, alts[b])])
  ELSE -1

\* \b at position i (between text[i-1] and text[i]).
WordBoundary(text, i) ==
  LET before == i - 1 >= 1 /\ i - 1 <= Len(text) /\ text[i - 1] \in WordChars
      after == i >= 1 /\ i <= Len(text) /\ text[i] \in WordChars
  IN before # after

\* The ends (the position after the last character) of the matches from i on of
\* the literals parts[k..] joined by `.*`: the k-th literal at i, the next one
\* anywhere later on the same line (`.` matches no newline).
RECURSIVE PartsEnds(_, _, _, _)
PartsEnds(text, i, parts, k) ==
  IF ~MatchLit(text, i, parts[k]) THEN {}
  ELSE IF k = Len(parts) THEN {i + Len(parts[k])}
  ELSE UNION {PartsEnds(text, j, parts, k + 1) :
                j \in {j \in (i + Len(parts[k]))..Len(text) :
                         \A g \in (i + Len(parts[k]))..(j - 1) : text[g] # "\n"}}

\* re.search(pattern, text, re.IGNORECASE) for a pattern of the tool catalog.
re_search(p, text) ==
  \E i \in 1..Len(text) :
    /\ p.wb_start => WordBoundary(text, i)
    /\ \E e \in PartsEnds(text, i, p.parts, 1) :
         p.wb_end => WordBoundary(text, e)

\* ------------------------------------------------------- pattern tables

\* self.github_patterns: a prefix (its alternatives, `s?` expanded), then
\* ([^/]+), a slash, and a second group of the characters outside excl2.
github_patterns ==
  << \* https?://github\.com/([^/]+)/([^/\s\)]+)
     [prefix |-> << <<"h","t","t","p","s",":","/","/","g","i","t","h","u","b",".","c","o","m","/">>,
                    <<"h","t","t","p",":","/","/","g","i","t","h","u","b",".","c","o","m","/">> >>,
      excl2 |-> {"/", ")"} \cup WhiteSpace],
     \* github\.com/([^/]+)/([^/\s\)]+)
     [prefix |-> << <<"g","i","t","h","u","b",".","c","o","m","/">> >>,
      excl2 |-> {"/", ")"} \cup WhiteSpace],
     \* raw\.githubusercontent\.com/([^/]+)/([^/]+)
     [prefix |-> << <<"r","a","w",".","g","i","t","h","u","b","u","s","e","r","c","o","n","t","e","n","t",".","c","o","m","/">> >>,
      excl2 |-> {"/"}],
     \* api\.github\.com/repos/([^/]+)/([^/]+)
     [prefix |-> << <<"a","p","i",".","g","i","t","h","u","b",".","c","o","m","/","r","e","p","o","s","/">> >>,
      excl2 |-> {"/"}] >>

\* self.download_patterns: a prefix, then [^\s]+, then a literal suffix.
download_patterns ==
  << \* https?://[^\s]+\.exe
     [prefix |-> << <<"h","t","t","p","s",":","/","/">>, <<"h","t","t","p",":","/","/">> >>,
      suffix |-> <<".","e","x","e">>],
     \* https?://[^\s]+\.zip
     [prefix |-> << <<"h","t","t","p","s",":","/","/">>, <<"h","t","t","p",":","/","/">> >>,
      suffix |-> <<".","z","i","p">>],
     \* https?://[^\s]+\.tar\.gz
     [prefix |-> << <<"h","t","t","p","s",":","/","/">>, <<"h","t","t","p",":","/","/">> >>,
      suffix |-> <<".","t","a","r",".","g","z">>],
     \* https?://[^\s]+\.deb
     [prefix |-> << <<"h","t","t","p","s",":","/","/">>, <<"h","t","t","p",":","/","/">> >>,
      suffix |-> <<".","d","e","b">>],
     \* https?://[^\s]+\.rpm
     [prefix |-> << <<"h","t","t","p","s",":","/","/">>, <<"h","t","t","p",":","/","/">> >>,
      suffix |-> <<".","r","p","m">>],
     \* https?://releases\.github\.com/[^\s]+
     [prefix |-> << <<"h","t","t","p","s",":","/","/","r","e","l","e","a","s","e","s",".","g","i","t","h","u","b",".","c","o","m","/">>,
                    <<"h","t","t","p",":","/","/","r","e","l","e","a","s","e","s",".","g","i","t","h","u","b",".","c","o","m","/">> >>,
      suffix |-> << >>] >>

\* exe_patterns of analyze_vql_query: a literal prefix outside the group, then
\* the group: \w+ and a literal suffix.
exe_patterns ==
  << \* (\w+\.exe)
     [prefix |-> << >>, suffix |-> <<".","e","x","e">>],
     \* (\w+\.dll)
     [prefix |-> << >>, suffix |-> <<".","d","l","l">>],
     \* (\w+\.sys)
     [prefix |-> << >>, suffix |-> <<".","s","y","s">>],
     \* /usr/bin/(\w+)
     [prefix |-> <<"/","u","s","r","/","b","i","n","/">>, suffix |-> << >>],
     \* /bin/(\w+)
     [prefix |-> <<"/","b","i","n","/">>, suffix |-> << >>],
     \* C:\\Windows\\System32\\(\w+\.exe)
     [prefix |-> <<"C",":","\\","W","i","n","d","o","w","s","\\","S","y","s","t","e","m","3","2","\\">>,
      suffix |-> <<".","e","x","e">>] >>

\* ------------------------------------------------------------- matching

\* A match of a GitHub pattern that starts at position i, as a sequence of at
\* most one match: the text matched (group0) and the two groups. `stop` is the
\* position after the match.
GithubMatchAt(p, text, i) ==
  LET l == PrefixLen(text, i, p.prefix)
      s1 == i + l
      n1 == RunLen(text, s1, {"/"})
      s2 == s1 + n1 + 1
      n2 == RunLen(text, s2, p.excl2)
  IN IF /\ l >= 0
        /\ n1 >= 1
        /\ s1 + n1 <= Len(text)
        /\ n2 >= 1
     THEN << [stop |-> s2 + n2,
              group0 |-> SubSeq(text, i, s2 + n2 - 1),
              group1 |-> SubSeq(text, s1, s1 + n1 - 1),
              group2 |-> SubSeq(text, s2, s2 + n2 - 1)] >>
     ELSE << >>

\* A match of a download pattern that starts at i: the prefix, then the longest
\* stretch of the run of non-blank characters that ends with the suffix and
\* has at least one character before it.
DownloadMatchAt(p, text, i) ==
  LET l == PrefixLen(text, i, p.prefix)
      s == i + l
      n == RunLen(text, s, WhiteSpace)
      fits == {k \in (Len(p.suffix) + 1)..n :
                 MatchLit(text, s + k - Len(p.suffix), p.suffix)}
  IN IF l >= 0 /\ fits # {}
     THEN LET k == CHOOSE k \in fits : \A x \in fits : x <= k
          IN << [stop |-> s + k, group0 |-> SubSeq(text, i, s + k - 1)] >>
     ELSE << >>

\* A match of an executable pattern that starts at i; group1 is the token.
ExeMatchAt(p, text, i) ==
  LET s == i + Len(p.prefix)
      n == WordRunLen(text, s)
  IN IF /\ MatchLit(text, i, p.prefix)
        /\ n >= 1
        /\ MatchLit(text, s + n, p.suffix)
     THEN << [stop |-> s + n + Len(p.suffix),
              group1 |-> SubSeq(text, s, s + n + Len(p.suffix) - 1)] >>
     ELSE << >>

MatchAt(family, p, text, i) ==
  CASE family = "github" -> GithubMatchAt(p, text, i)
    [] family = "download" -> DownloadMatchAt(p, text, i)
    [] family = "exe" -> ExeMatchAt(p, text, i)

\* The matches from position pos on, given the positions `starts` at which the
\* pattern matches: the leftmost one, then those after its end.
RECURSIVE MatchesFrom(_, _, _, _, _)
MatchesFrom(family, p, text, starts, pos) ==
  LET left == {i \in starts : i >= pos}
  IN IF left = {} THEN << >>
     ELSE LET i == CHOOSE i \in left : \A x \in left : i <= x
              m == MatchAt(family, p, text, i)
          IN m \o MatchesFrom(family, p, text, starts, m[1].stop)

\* re.finditer(pattern, text, re.IGNORECASE): the non-overlapping matches from
\* position pos on, leftmost first.
finditer(family, p, text, pos) ==
  MatchesFrom(family, p, text,
              {i \in 1..Len(text) : Len(MatchAt(family, p, text, i)) = 1}, pos)

\* The matches of all the patterns of a family, in the order the loops
\* `for pattern in patterns: for match in re.finditer(...)` visit them.
RECURSIVE AllMatches(_, _, _, _)
AllMatches(family, patterns, text, k) ==
  IF k > Len(patterns) THEN << >>
  ELSE finditer(family, patterns[k], text, 1)
         \o AllMatches(family, patterns, text, k + 1)

\* ------------------------------------------------------------------ data

\* The known-tool catalog (self.known_tools), in the dict's insertion order. A
\* pattern is the regular expression `src`: literals `parts` joined by `.*`,
\* with `\b` before the first (wb_start) and after the last (wb_end) literal.
known_tools ==
  <<
    [tool_name |-> "hayabusa",
     repo_url |-> <<"h","t","t","p","s",":","/","/","g","i","t","h","u","b",".","c","o","m","/","Y","a","m","a","t","o","-","S","e","c","u","r","i","t","y","/","h","a","y","a","b","u","s","a">>,
     patterns |-> <<
        [src |-> <<"h","a","y","a","b","u","s","a">>, parts |-> << <<"h","a","y","a","b","u","s","a">> >>, wb_start |-> FALSE, wb_end |-> FALSE],
        [src |-> <<"H","a","y","a","b","u","s","a">>, parts |-> << <<"H","a","y","a","b","u","s","a">> >>, wb_start |-> FALSE, wb_end |-> FALSE] >>,
     priority |-> "critical", language |-> "rust",
     description |-> "Windows event log fast forensics timeline generator"],
    [tool_name |-> "uac",
     repo_url |-> <<"h","t","t","p","s",":","/","/","g","i","t","h","u","b",".","c","o","m","/","t","c","l","a","h","r","/","u","a","c">>,
     patterns |-> <<
        [src |-> <<"\\","b","u","a","c","\\","b">>, parts |-> << <<"u","a","c">> >>, wb_start |-> TRUE, wb_end |-> TRUE],
        [src |-> <<"U","A","C">>, parts |-> << <<"U","A","C">> >>, wb_start |-> FALSE, wb_end |-> FALSE],
        [src |-> <<"u","n","i","x",".","*","a","r","t","i","f","a","c","t","s",".","*","c","o","l","l","e","c","t","o","r">>, parts |-> << <<"u","n","i","x">>, <<"a","r","t","i","f","a","c","t","s">>, <<"c","o","l","l","e","c","t","o","r">> >>, wb_start |-> FALSE, wb_end |-> FALSE] >>,
     priority |-> "high", language |-> "shell",
     description |-> "Unix-like Artifacts Collector"],
    [tool_name |-> "chainsaw",
     repo_url |-> <<"h","t","t","p","s",":","/","/","g","i","t","h","u","b",".","c","o","m","/","c","o","u","n","t","e","r","c","e","p","t","/","c","h","a","i","n","s","a","w">>,
     patterns |-> <<
        [src |-> <<"c","h","a","i","n","s","a","w">>, parts |-> << <<"c","h","a","i","n","s","a","w">> >>, wb_start |-> FALSE, wb_end |-> FALSE],
        [src |-> <<"C","h","a","i","n","s","a","w">>, parts |-> << <<"C","h","a","i","n","s","a","w">> >>, wb_start |-> FALSE, wb_end |-> FALSE] >>,
     priority |-> "high", language |-> "rust",
     description |-> "Rapidly Search and Hunt through Windows Event Logs"],
    [tool_name |-> "sigma",
     repo_url |-> <<"h","t","t","p","s",":","/","/","g","i","t","h","u","b",".","c","o","m","/","S","i","g","m","a","H","Q","/","s","i","g","m","a">>,
     patterns |-> <<
        [src |-> <<"s","i","g","m","a">>, parts |-> << <<"s","i","g","m","a">> >>, wb_start |-> FALSE, wb_end |-> FALSE],
        [src |-> <<"S","i","g","m","a">>, parts |-> << <<"S","i","g","m","a">> >>, wb_start |-> FALSE, wb_end |-> FALSE],
        [src |-> <<"s","i","g","m","a",".","*","r","u","l","e">>, parts |-> << <<"s","i","g","m","a">>, <<"r","u","l","e">> >>, wb_start |-> FALSE, wb_end |-> FALSE] >>,
     priority |-> "critical", language |-> "python",
     description |-> "Generic Signature Format for SIEM Systems"],
    [tool_name |-> "yara",
     repo_url |-> <<"h","t","t","p","s",":","/","/","g","i","t","h","u","b",".","c","o","m","/","V","i","r","u","s","T","o","t","a","l","/","y","a","r","a">>,
     patterns |-> <<
        [src |-> <<"y","a","r","a">>, parts |-> << <<"y","a","r","a">> >>, wb_start |-> FALSE, wb_end |-> FALSE],
        [src |-> <<"Y","A","R","A">>, parts |-> << <<"Y","A","R","A">> >>, wb_start |-> FALSE, wb_end |-> FALSE],
        [src |-> <<"\\",".","y","a","r","\\","b">>, parts |-> << <<".","y","a","r">> >>, wb_start |-> FALSE, wb_end |-> TRUE],
        [src |-> <<"\\",".","y","a","r","a","\\","b">>, parts |-> << <<".","y","a","r","a">> >>, wb_start |-> FALSE, wb_end |-> TRUE] >>,
     priority |-> "critical", language |-> "c",
     description |-> "Pattern matching engine for malware research"],
    [tool_name |-> "volatility",
     repo_url |-> <<"h","t","t","p","s",":","/","/","g","i","t","h","u","b",".","c","o","m","/","v","o","l","a","t","i","l","i","t","y","f","o","u","n","d","a","t","i","o","n","/","v","o","l","a","t","i","l","i","t","y","3">>,
     patterns |-> <<
        [src |-> <<"v","o","l","a","t","i","l","i","t","y">>, parts |-> << <<"v","o","l","a","t","i","l","i","t","y">> >>, wb_start |-> FALSE, wb_end |-> FALSE],
        [src |-> <<"V","o","l","a","t","i","l","i","t","y">>, parts |-> << <<"V","o","l","a","t","i","l","i","t","y">> >>, wb_start |-> FALSE, wb_end |-> FALSE],
        [src |-> <<"v","o","l","\\",".","p","y">>, parts |-> << <<"v","o","l",".","p","y">> >>, wb_start |-> FALSE, wb_end |-> FALSE] >>,
     priority |-> "critical", language |-> "python",
     description |-> "Advanced memory forensics framework"],
    [tool_name |-> "plaso",
     repo_url |-> <<"h","t","t","p","s",":","/","/","g","i","t","h","u","b",".","c","o","m","/","l","o","g","2","t","i","m","e","l","i","n","e","/","p","l","a","s","o">>,
     patterns |-> <<
        [src |-> <<"p","l","a","s","o">>, parts |-> << <<"p","l","a","s","o">> >>, wb_start |-> FALSE, wb_end |-> FALSE],
        [src |-> <<"P","l","a","s","o">>, parts |-> << <<"P","l","a","s","o">> >>, wb_start |-> FALSE, wb_end |-> FALSE],
        [src |-> <<"l","o","g","2","t","i","m","e","l","i","n","e">>, parts |-> << <<"l","o","g","2","t","i","m","e","l","i","n","e">> >>, wb_start |-> FALSE, wb_end |-> FALSE] >>,
     priority |-> "high", language |-> "python",
     description |-> "Super timeline all the things"],
    [tool_name |-> "autopsy",
     repo_url |-> <<"h","t","t","p","s",":","/","/","g","i","t","h","u","b",".","c","o","m","/","s","l","e","u","t","h","k","i","t","/","a","u","t","o","p","s","y">>,
     patterns |-> <<
        [src |-> <<"a","u","t","o","p","s","y">>, parts |-> << <<"a","u","t","o","p","s","y">> >>, wb_start |-> FALSE, wb_end |-> FALSE],
        [src |-> <<"A","u","t","o","p","s","y">>, parts |-> << <<"A","u","t","o","p","s","y">> >>, wb_start |-> FALSE, wb_end |-> FALSE] >>,
     priority |-> "high", language |-> "java",
     description |-> "Digital forensics platform"],
    [tool_name |-> "sleuthkit",
     repo_url |-> <<"h","t","t","p","s",":","/","/","g","i","t","h","u","b",".","c","o","m","/","s","l","e","u","t","h","k","i","t","/","s","l","e","u","t","h","k","i","t">>,
     patterns |-> <<
        [src |-> <<"s","l","e","u","t","h","k","i","t">>, parts |-> << <<"s","l","e","u","t","h","k","i","t">> >>, wb_start |-> FALSE, wb_end |-> FALSE],
        [src |-> <<"S","l","e","u","t","h","K","i","t">>, parts |-> << <<"S","l","e","u","t","h","K","i","t">> >>, wb_start |-> FALSE, wb_end |-> FALSE],
        [src |-> <<"t","s","k","_">>, parts |-> << <<"t","s","k","_">> >>, wb_start |-> FALSE, wb_end |-> FALSE] >>,
     priority |-> "high", language |-> "c",
     description |-> "Library and collection of command line tools"],
    [tool_name |-> "capa",
     repo_url |-> <<"h","t","t","p","s",":","/","/","g","i","t","h","u","b",".","c","o","m","/","m","a","n","d","i","a","n","t","/","c","a","p","a">>,
     patterns |-> <<
        [src |-> <<"\\","b","c","a","p","a","\\","b">>, parts |-> << <<"c","a","p","a">> >>, wb_start |-> TRUE, wb_end |-> TRUE],
        [src |-> <<"C","A","P","A">>, parts |-> << <<"C","A","P","A">> >>, wb_start |-> FALSE, wb_end |-> FALSE] >>,
     priority |-> "high", language |-> "python",
     description |-> "Automatically identify capabilities in executable files"],
    [tool_name |-> "osquery",
     repo_url |-> <<"h","t","t","p","s",":","/","/","g","i","t","h","u","b",".","c","o","m","/","o","s","q","u","e","r","y","/","o","s","q","u","e","r","y">>,
     patterns |-> <<
        [src |-> <<"o","s","q","u","e","r","y">>, parts |-> << <<"o","s","q","u","e","r","y">> >>, wb_start |-> FALSE, wb_end |-> FALSE],
        [src |-> <<"O","S","Q","u","e","r","y">>, parts |-> << <<"O","S","Q","u","e","r","y">> >>, wb_start |-> FALSE, wb_end |-> FALSE] >>,
     priority |-> "high", language |-> "cpp",
     description |-> "SQL powered operating system instrumentation framework"],
    [tool_name |-> "regripper",
     repo_url |-> <<"h","t","t","p","s",":","/","/","g","i","t","h","u","b",".","c","o","m","/","k","e","y","d","e","t","8","9","/","R","e","g","R","i","p","p","e","r","3",".","0">>,
     patterns |-> <<
        [src |-> <<"r","e","g","r","i","p","p","e","r">>, parts |-> << <<"r","e","g","r","i","p","p","e","r">> >>, wb_start |-> FALSE, wb_end |-> FALSE],
        [src |-> <<"R","e","g","R","i","p","p","e","r">>, parts |-> << <<"R","e","g","R","i","p","p","e","r">> >>, wb_start |-> FALSE, wb_end |-> FALSE],
        [src |-> <<"r","i","p","\\",".","p","l">>, parts |-> << <<"r","i","p",".","p","l">> >>, wb_start |-> FALSE, wb_end |-> FALSE] >>,
     priority |-> "medium", language |-> "perl",
     description |-> "Windows Registry data extraction tool"],
    [tool_name |-> "evtx",
     repo_url |-> <<"h","t","t","p","s",":","/","/","g","i","t","h","u","b",".","c","o","m","/","o","m","e","r","b","e","n","a","m","r","a","m","/","e","v","t","x">>,
     patterns |-> <<
        [src |-> <<"e","v","t","x">>, parts |-> << <<"e","v","t","x">> >>, wb_start |-> FALSE, wb_end |-> FALSE],
        [src |-> <<"E","V","T","X">>, parts |-> << <<"E","V","T","X">> >>, wb_start |-> FALSE, wb_end |-> FALSE],
        [src |-> <<"\\",".","e","v","t","x">>, parts |-> << <<".","e","v","t","x">> >>, wb_start |-> FALSE, wb_end |-> FALSE] >>,
     priority |-> "high", language |-> "rust",
     description |-> "Windows XML Event Log parser"],
    [tool_name |-> "loki",
     repo_url |-> <<"h","t","t","p","s",":","/","/","g","i","t","h","u","b",".","c","o","m","/","N","e","o","2","3","x","0","/","L","o","k","i">>,
     patterns |-> <<
        [src |-> <<"\\","b","l","o","k","i","\\","b">>, parts |-> << <<"l","o","k","i">> >>, wb_start |-> TRUE, wb_end |-> TRUE],
        [src |-> <<"L","o","k","i">>, parts |-> << <<"L","o","k","i">> >>, wb_start |-> FALSE, wb_end |-> FALSE] >>,
     priority |-> "medium", language |-> "python",
     description |-> "Simple IOC and YARA Scanner"],
    [tool_name |-> "thor",
     repo_url |-> <<"h","t","t","p","s",":","/","/","g","i","t","h","u","b",".","c","o","m","/","N","e","x","t","r","o","n","S","y","s","t","e","m","s","/","t","h","o","r","-","l","i","t","e">>,
     patterns |-> <<
        [src |-> <<"t","h","o","r">>, parts |-> << <<"t","h","o","r">> >>, wb_start |-> FALSE, wb_end |-> FALSE],
        [src |-> <<"T","H","O","R">>, parts |-> << <<"T","H","O","R">> >>, wb_start |-> FALSE, wb_end |-> FALSE] >>,
     priority |-> "medium", language |-> "go",
     description |-> "Compromise Assessment Scanner"],
    [tool_name |-> "densityscout",
     repo_url |-> <<"h","t","t","p","s",":","/","/","g","i","t","h","u","b",".","c","o","m","/","c","e","r","t","-","e","e","/","d","e","n","s","i","t","y","s","c","o","u","t">>,
     patterns |-> <<
        [src |-> <<"d","e","n","s","i","t","y","s","c","o","u","t">>, parts |-> << <<"d","e","n","s","i","t","y","s","c","o","u","t">> >>, wb_start |-> FALSE, wb_end |-> FALSE],
        [src |-> <<"D","e","n","s","i","t","y","S","c","o","u","t">>, parts |-> << <<"D","e","n","s","i","t","y","S","c","o","u","t">> >>, wb_start |-> FALSE, wb_end |-> FALSE] >>,
     priority |-> "low", language |-> "c",
     description |-> "Entropy analysis tool"],
    [tool_name |-> "pe-sieve",
     repo_url |-> <<"h","t","t","p","s",":","/","/","g","i","t","h","u","b",".","c","o","m","/","h","a","s","h","e","r","e","z","a","d","e","/","p","e","-","s","i","e","v","e">>,
     patterns |-> <<
        [src |-> <<"p","e","-","s","i","e","v","e">>, parts |-> << <<"p","e","-","s","i","e","v","e">> >>, wb_start |-> FALSE, wb_end |-> FALSE],
        [src |-> <<"p","e","s","i","e","v","e">>, parts |-> << <<"p","e","s","i","e","v","e">> >>, wb_start |-> FALSE, wb_end |-> FALSE] >>,
     priority |-> "medium", language |-> "cpp",
     description |-> "Scans a given process for various types of in-memory modifications"],
    [tool_name |-> "hollows_hunter",
     repo_url |-> <<"h","t","t","p","s",":","/","/","g","i","t","h","u","b",".","c","o","m","/","h","a","s","h","e","r","e","z","a","d","e","/","h","o","l","l","o","w","s","_","h","u","n","t","e","r">>,
     patterns |-> <<
        [src |-> <<"h","o","l","l","o","w","s","_","h","u","n","t","e","r">>, parts |-> << <<"h","o","l","l","o","w","s","_","h","u","n","t","e","r">> >>, wb_start |-> FALSE, wb_end |-> FALSE],
        [src |-> <<"h","o","l","l","o","w","s","-","h","u","n","t","e","r">>, parts |-> << <<"h","o","l","l","o","w","s","-","h","u","n","t","e","r">> >>, wb_start |-> FALSE, wb_end |-> FALSE] >>,
     priority |-> "medium", language |-> "cpp",
     description |-> "Scans all running processes for various types of in-memory modifications"],
    [tool_name |-> "winpmem",
     repo_url |-> <<"h","t","t","p","s",":","/","/","g","i","t","h","u","b",".","c","o","m","/","V","e","l","o","c","i","d","x","/","W","i","n","P","m","e","m">>,
     patterns |-> <<
        [src |-> <<"w","i","n","p","m","e","m">>, parts |-> << <<"w","i","n","p","m","e","m">> >>, wb_start |-> FALSE, wb_end |-> FALSE],
        [src |-> <<"W","i","n","P","m","e","m">>, parts |-> << <<"W","i","n","P","m","e","m">> >>, wb_start |-> FALSE, wb_end |-> FALSE] >>,
     priority |-> "high", language |-> "cpp",
     description |-> "Windows physical memory acquisition tool"],
    [tool_name |-> "linpmem",
     repo_url |-> <<"h","t","t","p","s",":","/","/","g","i","t","h","u","b",".","c","o","m","/","V","e","l","o","c","i","d","x","/","L","i","n","p","m","e","m">>,
     patterns |-> <<
        [src |-> <<"l","i","n","p","m","e","m">>, parts |-> << <<"l","i","n","p","m","e","m">> >>, wb_start |-> FALSE, wb_end |-> FALSE],
        [src |-> <<"L","i","n","p","m","e","m">>, parts |-> << <<"L","i","n","p","m","e","m">> >>, wb_start |-> FALSE, wb_end |-> FALSE] >>,
     priority |-> "high", language |-> "cpp",
     description |-> "Linux physical memory acquisition tool"] >>

\* The configuration files the bundles are drawn from. `content` is the file's
\* text and `yaml` what yaml.safe_load returns for that text: kind
\* error (the parser raises), other (a value that is no mapping: a string),
\* or mapping with the mapping's `name` entry
\* (has_name) and its `sources` entry: absent, or a list of `entries`, each a
\* mapping with an optional query string, or a scalar (an integer).
Files ==
  <<
    \* Sigma.yaml
    \*   sigma https://github.com/SigmaHQ/sigma/blob/master/rules/x.yml
    [stem |-> "Sigma",
     content |-> <<"s","i","g","m","a"," ","h","t","t","p","s",":","/","/","g","i","t","h","u","b",".","c","o","m","/","S","i","g","m","a","H","Q","/","s","i","g","m","a","/","b","l","o","b","/","m","a","s","t","e","r","/","r","u","l","e","s","/","x",".","y","m","l","\n">>,
     yaml |-> [kind |-> "other"]],
    \* Yara.yaml
    \*   name: B
    \*   ref: https://github.com/VirusTotal/yara, github.com/VirusTotal/yara.
    \*   see: github.com/google/malware
    [stem |-> "Yara",
     content |-> <<"n","a","m","e",":"," ","B","\n","r","e","f",":"," ","h","t","t","p","s",":","/","/","g","i","t","h","u","b",".","c","o","m","/","V","i","r","u","s","T","o","t","a","l","/","y","a","r","a",","," ","g","i","t","h","u","b",".","c","o","m","/","V","i","r","u","s","T","o","t","a","l","/","y","a","r","a",".","\n","s","e","e",":"," ","g","i","t","h","u","b",".","c","o","m","/","g","o","o","g","l","e","/","m","a","l","w","a","r","e","\n">>,
     yaml |-> [kind |-> "mapping", name |-> [has_name |-> TRUE, name |-> "B"],
              sources |-> [kind |-> "absent"]]],
    \* Haya.yaml
    \*   name: C
    \*   tool: Hayabusa
    \*   get: https://x.io/h.zip
    \*   see: github.com/google/malware
    [stem |-> "Haya",
     content |-> <<"n","a","m","e",":"," ","C","\n","t","o","o","l",":"," ","H","a","y","a","b","u","s","a","\n","g","e","t",":"," ","h","t","t","p","s",":","/","/","x",".","i","o","/","h",".","z","i","p","\n","s","e","e",":"," ","g","i","t","h","u","b",".","c","o","m","/","g","o","o","g","l","e","/","m","a","l","w","a","r","e","\n">>,
     yaml |-> [kind |-> "mapping", name |-> [has_name |-> TRUE, name |-> "C"],
              sources |-> [kind |-> "absent"]]],
    \* Osq.yaml
    \*   sources:
    \*   - query: "C:\\Windows\\System32\\osq\x75eryi.exe"
    \*   see: github.com/google/malware
    [stem |-> "Osq",
     content |-> <<"s","o","u","r","c","e","s",":","\n","-"," ","q","u","e","r","y",":"," ","\"","C",":","\\","\\","W","i","n","d","o","w","s","\\","\\","S","y","s","t","e","m","3","2","\\","\\","o","s","q","\\","x","7","5","e","r","y","i",".","e","x","e","\"","\n","s","e","e",":"," ","g","i","t","h","u","b",".","c","o","m","/","g","o","o","g","l","e","/","m","a","l","w","a","r","e","\n">>,
     yaml |-> [kind |-> "mapping", name |-> [has_name |-> FALSE],
              sources |-> [kind |-> "list", entries |-> << [kind |-> "mapping", has_query |-> TRUE, query |-> <<"C",":","\\","W","i","n","d","o","w","s","\\","S","y","s","t","e","m","3","2","\\","o","s","q","u","e","r","y","i",".","e","x","e">>] >>]]],
    \* Bad.yaml
    \*   { winpmem: github.com/google/malware. https://x.io/w.exe
    [stem |-> "Bad",
     content |-> <<"{"," ","w","i","n","p","m","e","m",":"," ","g","i","t","h","u","b",".","c","o","m","/","g","o","o","g","l","e","/","m","a","l","w","a","r","e","."," ","h","t","t","p","s",":","/","/","x",".","i","o","/","w",".","e","x","e","\n">>,
     yaml |-> [kind |-> "error"]],
    \* Dup.yaml
    \*   name: B
    \*   sources: [1, {query: "osq\x75eryi.exe"}]
    \*   url: github.com/VirusTotal/yara
    [stem |-> "Dup",
     content |-> <<"n","a","m","e",":"," ","B","\n","s","o","u","r","c","e","s",":"," ","[","1",","," ","{","q","u","e","r","y",":"," ","\"","o","s","q","\\","x","7","5","e","r","y","i",".","e","x","e","\"","}","]","\n","u","r","l",":"," ","g","i","t","h","u","b",".","c","o","m","/","V","i","r","u","s","T","o","t","a","l","/","y","a","r","a","\n">>,
     yaml |-> [kind |-> "mapping", name |-> [has_name |-> TRUE, name |-> "B"],
              sources |-> [kind |-> "list", entries |-> << [kind |-> "scalar"], [kind |-> "mapping", has_query |-> TRUE, query |-> <<"o","s","q","u","e","r","y","i",".","e","x","e">>] >>]]] >>

\* ------------------------------------------------------- python values

\* A Python set, and the list that list(a_set) makes of it. The order of that
\* list is the set's iteration order, which the language leaves open; the model
\* keeps the elements and the type, and no statement below reads the order.
EmptySet == [type |-> "set", elems |-> {}]

SetAdd(s, x) == [s EXCEPT !.elems = @ \cup {x}]

list(s) == [type |-> "list", elems |-> s.elems]

\* A dict in insertion order: a sequence of values, each carrying its `key`.
HasKey(d, k) == \E i \in 1..Len(d) : d[i].key = k

IndexOf(d, k) == CHOOSE i \in 1..Len(d) : d[i].key = k

InList(l, x) == \E i \in 1..Len(l) : l[i] = x

\* s.split(c)[0]: s up to the first occurrence of the character c.
SplitFirst(s, c) ==
  IF \E i \in 1..Len(s) : s[i] = c
  THEN SubSeq(s, 1, (CHOOSE i \in 1..Len(s) :
                       s[i] = c /\ \A j \in 1..(i - 1) : s[j] # c) - 1)
  ELSE s

\* s.rstrip(chars)
RECURSIVE rstrip(_, _)
rstrip(s, chars) ==
  IF Len(s) > 0 /\ s[Len(s)] \in chars
  THEN rstrip(SubSeq(s, 1, Len(s) - 1), chars)
  ELSE s

\* ----------------------------------------------- find_github_repositories

\* repo.split('?')[0].split('#')[0].rstrip('.,;)')
clean_repository_name(repo) ==
  rstrip(SplitFirst(SplitFirst(repo, "?"), "#"), {".", ",", ";", ")"})

\* f"{org}/{repo}"
RepoKey(org, repo) == org \o <<"/">> \o repo

\* The record find_github_repositories creates for a key it has not seen.
NewRepository(org, repo) ==
  [key |-> RepoKey(org, repo),
   organization |-> org,
   repository_name |-> repo,
   repository_url |->
     <<"h","t","t","p","s",":","/","/","g","i","t","h","u","b",".","c","o","m","/">>
       \o org \o <<"/">> \o repo,
   referenced_in_artifacts |-> << >>,
   referenced_in_packs |-> EmptySet,
   full_urls_found |-> EmptySet,
   priority |-> "unknown",
   language |-> "unknown",
   stars |-> 0,
   license |-> "unknown"]

\* AddArtifact without the membership test: the name is appended at every
\* sighting.
AddArtifactAlways(artifacts, artifact_name) ==
  Append(artifacts, artifact_name)

\* if artifact_name not in info['referenced_in_artifacts']: append it
AddArtifact(artifacts, artifact_name) ==
  IF InList(artifacts, artifact_name) THEN artifacts
  ELSE Append(artifacts, artifact_name)

\* GithubAddReference keeping a list of sightings instead of a list of names:
\* the name is appended whether or not the list has it.
GithubAddReferenceAppend(repo_info, artifact_name, pack_name, url) ==
  [repo_info EXCEPT
     !.referenced_in_artifacts = Append(@, artifact_name),
     !.referenced_in_packs = SetAdd(@, pack_name),
     !.full_urls_found = SetAdd(@, url)]

\* GithubAddReference writing the tier and language of a fresh record on a
\* record that exists.
GithubAddReferenceReset(repo_info, artifact_name, pack_name, url) ==
  [repo_info EXCEPT
     !.referenced_in_artifacts =
        IF InList(@, artifact_name) THEN @ ELSE Append(@, artifact_name),
     !.referenced_in_packs = SetAdd(@, pack_name),
     !.full_urls_found = SetAdd(@, url),
     !.priority = "unknown",
     !.language = "unknown"]

\* "Add reference" of find_github_repositories, on the record of the key.
GithubAddReference(repo_info, artifact_name, pack_name, url) ==
  [repo_info EXCEPT
     !.referenced_in_artifacts = AddArtifact(@, artifact_name),
     !.referenced_in_packs = SetAdd(@, pack_name),
     !.full_urls_found = SetAdd(@, url)]

\* The body of the loop of find_github_repositories for one match m. Every
\* pattern has two groups, so len(match.groups()) >= 2 holds for each match.
GithubHit(st, m, artifact_name, pack_name) ==
  LET org == m.group1
      repo == clean_repository_name(m.group2)
      repo_key == RepoKey(org, repo)
      repos == IF ~HasKey(st.repositories_found, repo_key)
               THEN Append(st.repositories_found, NewRepository(org, repo))
               ELSE st.repositories_found
      i == IndexOf(repos, repo_key)
  IN [st EXCEPT
        !.repositories_found =
           [repos EXCEPT ![i] =
              GithubAddReference(@, artifact_name, pack_name, m.group0)],
        !.organizations_found = SetAdd(@, org)]

RECURSIVE GithubHits(_, _, _, _, _)
GithubHits(st, ms, k, artifact_name, pack_name) ==
  IF k > Len(ms) THEN st
  ELSE GithubHits(GithubHit(st, ms[k], artifact_name, pack_name),
                  ms, k + 1, artifact_name, pack_name)

\* The matches of the GitHub patterns in each file's text, computed once.
GithubMatches ==
  [f \in 1..Len(Files) |->
     AllMatches("github", github_patterns, Files[f].content, 1)]

FileOf(content) == CHOOSE f \in 1..Len(Files) : Files[f].content = content

find_github_repositories(st, content, artifact_name, pack_name) ==
  GithubHits(st, GithubMatches[FileOf(content)], 1, artifact_name, pack_name)

\* ------------------------------------------------------- find_known_tools

\* The record both tool passes create for a tool they have not seen.
NewTool(tool_info) ==
  [key |-> tool_info.tool_name,
   tool_name |-> tool_info.tool_name,
   repository_url |-> tool_info.repo_url,
   priority |-> tool_info.priority,
   language |-> tool_info.language,
   description |-> tool_info.description,
   referenced_in_artifacts |-> << >>,
   referenced_in_packs |-> EmptySet,
   patterns_matched |-> EmptySet]

\* Create the tool's record if it is new, then add the reference.
ToolAddReference(tools, tool_info, artifact_name, pack_name, matched) ==
  LET tools1 == IF ~HasKey(tools, tool_info.tool_name)
                THEN Append(tools, NewTool(tool_info))
                ELSE tools
      i == IndexOf(tools1, tool_info.tool_name)
  IN [tools1 EXCEPT ![i] =
        [@ EXCEPT
           !.referenced_in_artifacts = AddArtifact(@, artifact_name),
           !.referenced_in_packs = SetAdd(@, pack_name),
           !.patterns_matched = SetAdd(@, matched)]]

\* The two groups of the first of the matches ms, as a sequence of at most
\* one <<org, repo>>.
FirstGroups(ms) ==
  IF Len(ms) = 0 THEN << >> ELSE << <<ms[1].group1, ms[1].group2>> >>

\* re.search(r'github\.com/([^/]+)/([^/]+)', repo_url)
ToolRepoMatch(repo_url) ==
  FirstGroups(finditer("github",
                       [prefix |-> << <<"g","i","t","h","u","b",".","c","o","m","/">> >>,
                        excl2 |-> {"/"}],
                       repo_url, 1))

\* The record find_known_tools creates for a repository key it has not seen.
NewToolRepository(org, repo, tool_info) ==
  [key |-> RepoKey(org, repo),
   organization |-> org,
   repository_name |-> repo,
   repository_url |-> tool_info.repo_url,
   referenced_in_artifacts |-> << >>,
   referenced_in_packs |-> EmptySet,
   full_urls_found |-> EmptySet,
   priority |-> tool_info.priority,
   language |-> tool_info.language,
   stars |-> 0,
   license |-> "unknown",
   tool_name |-> tool_info.tool_name]

\* The update of the repository record by a known-tool hit.
ToolUpdateRepository(repo_info, tool_info, artifact_name, pack_name) ==
  [repo_info EXCEPT
     !.referenced_in_artifacts = AddArtifact(@, artifact_name),
     !.referenced_in_packs = SetAdd(@, pack_name),
     !.priority = tool_info.priority,
     !.language = tool_info.language]

\* The position of a tool in the catalog.
ToolIndex(tool_name) ==
  CHOOSE t \in 1..Len(known_tools) : known_tools[t].tool_name = tool_name

\* What lines 383-384 find in each tool's repo_url, computed once: whether it
\* contains github.com, and the match of the repository pattern.
ToolRepos ==
  [t \in 1..Len(known_tools) |->
     [is_github |-> Contains(known_tools[t].repo_url,
                             <<"g","i","t","h","u","b",".","c","o","m">>),
      repo_match |-> ToolRepoMatch(known_tools[t].repo_url)]]

\* ToolUpsertRepository without the test for the key: the record is written
\* anew at every hit.
ToolUpsertRepositoryAnew(repos, repo_key, org, repo, tool_info, artifact_name, pack_name) ==
  IF HasKey(repos, repo_key)
  THEN [repos EXCEPT ![IndexOf(repos, repo_key)] =
          ToolUpdateRepository(NewToolRepository(org, repo, tool_info),
                               tool_info, artifact_name, pack_name)]
  ELSE Append(repos, ToolUpdateRepository(NewToolRepository(org, repo, tool_info),
                                          tool_info, artifact_name, pack_name))

\* Create the repository's record if its key is new, then update it.
ToolUpsertRepository(repos, repo_key, org, repo, tool_info, artifact_name, pack_name) ==
  LET repos1 == IF ~HasKey(repos, repo_key)
                THEN Append(repos, NewToolRepository(org, repo, tool_info))
                ELSE repos
  IN [repos1 EXCEPT ![IndexOf(repos1, repo_key)] =
        ToolUpdateRepository(@, tool_info, artifact_name, pack_name)]

\* The branch on what was found in the tool's repo_url.
ToolAddFound(repos, found, tool_info, artifact_name, pack_name) ==
  IF found.is_github /\ Len(found.repo_match) = 1
  THEN ToolUpsertRepository(repos,
                            RepoKey(found.repo_match[1][1], found.repo_match[1][2]),
                            found.repo_match[1][1], found.repo_match[1][2],
                            tool_info, artifact_name, pack_name)
  ELSE repos

\* "Also add to repositories if it's a GitHub repo"
ToolAddRepository(repos, tool_info, artifact_name, pack_name) ==
  ToolAddFound(repos, ToolRepos[ToolIndex(tool_info.tool_name)],
               tool_info, artifact_name, pack_name)

\* The body of the loops of find_known_tools for one pattern that matches.
ToolHit(st, tool_info, pattern, artifact_name, pack_name) ==
  [st EXCEPT
     !.tools_found =
        ToolAddReference(@, tool_info, artifact_name, pack_name, pattern.src),
     !.repositories_found =
        ToolAddRepository(@, tool_info, artifact_name, pack_name)]

\* The <<tool, pattern>> index pairs, in the order of the loops
\* `for tool: for pattern`.
RECURSIVE ToolPatterns(_)
ToolPatterns(t) ==
  IF t > Len(known_tools) THEN << >>
  ELSE [k \in 1..Len(known_tools[t].patterns) |-> <<t, k>>] \o ToolPatterns(t + 1)

\* Those with re.search(pattern, text, re.IGNORECASE).
PatternHits(text) ==
  SelectSeq(ToolPatterns(1),
            LAMBDA h : re_search(known_tools[h[1]].patterns[h[2]], text))

\* The pattern hits in each file's text, computed once.
ToolMatches ==
  [f \in 1..Len(Files) |-> PatternHits(Files[f].content)]

RECURSIVE ToolHits(_, _, _, _, _)
ToolHits(st, hits, k, artifact_name, pack_name) ==
  IF k > Len(hits) THEN st
  ELSE ToolHits(ToolHit(st, known_tools[hits[k][1]],
                        known_tools[hits[k][1]].patterns[hits[k][2]],
                        artifact_name, pack_name),
                hits, k + 1, artifact_name, pack_name)

find_known_tools(st, content, artifact_name, pack_name) ==
  ToolHits(st, ToolMatches[FileOf(content)], 1, artifact_name, pack_name)

\* ----------------------------------------------------- find_download_urls

\* urlparse(url).netloc for a url that starts with http:// or https://: what
\* follows the `//` up to the first `/`, `?` or `#`.
netloc(url) ==
  LET s == (CHOOSE i \in 1..Len(url) :
              url[i] = ":" /\ \A j \in 1..(i - 1) : url[j] # ":") + 3
  IN SubSeq(url, s, s + RunLen(url, s, {"/", "?", "#"}) - 1)

\* urlparse raises ValueError("Invalid IPv6 URL") on a netloc with one square
\* bracket and not the other.
UrlparseRaises(url) ==
  LET n == netloc(url)
  IN (\E i \in 1..Len(n) : n[i] = "[") # (\E i \in 1..Len(n) : n[i] = "]")

NewDependency(domain) ==
  [key |-> domain,
   domain |-> domain,
   urls_found |-> EmptySet,
   referenced_in_artifacts |-> << >>,
   referenced_in_packs |-> EmptySet]

\* The body of the loop of find_download_urls for one match whose url parses.
DownloadHit(st, url, artifact_name, pack_name) ==
  LET domain == netloc(url)
      deps == IF ~HasKey(st.dependencies_found, domain)
              THEN Append(st.dependencies_found, NewDependency(domain))
              ELSE st.dependencies_found
      i == IndexOf(deps, domain)
  IN [st EXCEPT
        !.dependencies_found =
           [deps EXCEPT ![i] =
              [@ EXCEPT
                 !.urls_found = SetAdd(@, url),
                 !.referenced_in_artifacts = AddArtifact(@, artifact_name),
                 !.referenced_in_packs = SetAdd(@, pack_name)]]]

\* The loop over the matches; `raised` when urlparse raised, which ends it.
RECURSIVE DownloadHits(_, _, _, _, _)
DownloadHits(st, ms, k, artifact_name, pack_name) ==
  IF k > Len(ms) THEN [st |-> st, raised |-> FALSE]
  ELSE IF UrlparseRaises(ms[k].group0) THEN [st |-> st, raised |-> TRUE]
  ELSE DownloadHits(DownloadHit(st, ms[k].group0, artifact_name, pack_name),
                    ms, k + 1, artifact_name, pack_name)

\* The matches of the download patterns in each file's text, computed once.
DownloadMatches ==
  [f \in 1..Len(Files) |->
     AllMatches("download", download_patterns, Files[f].content, 1)]

find_download_urls(st, content, artifact_name, pack_name) ==
  DownloadHits(st, DownloadMatches[FileOf(content)], 1, artifact_name, pack_name)

\* ------------------------------------------------------ analyze_vql_query

\* any(re.search(p, executable, re.IGNORECASE) for p in tool_info['patterns'])
AnyPatternMatches(tool_info, executable) ==
  \E k \in 1..Len(tool_info.patterns) :
    re_search(tool_info.patterns[k], executable)

\* The catalog positions of the tools one executable corresponds to, in the
\* order of `for tool_name, tool_info in self.known_tools.items()`.
ExecutableTools(executable) ==
  SelectSeq([t \in 1..Len(known_tools) |-> t],
            LAMBDA t : AnyPatternMatches(known_tools[t], executable))

\* The hits of the loops of analyze_vql_query on a query: for each match of
\* each executable pattern, the executable and the tools it corresponds to.
RECURSIVE ExecutableHits(_, _)
ExecutableHits(ms, k) ==
  IF k > Len(ms) THEN << >>
  ELSE LET executable == ms[k].group1
           ts == ExecutableTools(executable)
       IN [j \in 1..Len(ts) |-> [executable |-> executable, tool |-> ts[j]]]
            \o ExecutableHits(ms, k + 1)

\* The query strings of the files, and the hits in each, computed once.
Queries ==
  UNION {{Files[f].yaml.sources.entries[e].query :
            e \in {e \in 1..Len(Files[f].yaml.sources.entries) :
                     /\ Files[f].yaml.sources.entries[e].kind = "mapping"
                     /\ Files[f].yaml.sources.entries[e].has_query}} :
           f \in {f \in 1..Len(Files) :
                    /\ Files[f].yaml.kind = "mapping"
                    /\ Files[f].yaml.sources.kind = "list"}}

VqlMatches ==
  [q \in Queries |-> ExecutableHits(AllMatches("exe", exe_patterns, q, 1), 1)]

\* VqlHits with the tool's name recorded in place of the executable.
RECURSIVE VqlHitsToolName(_, _, _, _, _)
VqlHitsToolName(tools, hits, k, artifact_name, pack_name) ==
  IF k > Len(hits) THEN tools
  ELSE VqlHitsToolName(ToolAddReference(tools, known_tools[hits[k].tool],
                                        artifact_name, pack_name,
                                        known_tools[hits[k].tool].tool_name),
                       hits, k + 1, artifact_name, pack_name)

RECURSIVE VqlHits(_, _, _, _, _)
VqlHits(tools, hits, k, artifact_name, pack_name) ==
  IF k > Len(hits) THEN tools
  ELSE VqlHits(ToolAddReference(tools, known_tools[hits[k].tool], artifact_name,
                                pack_name, hits[k].executable),
               hits, k + 1, artifact_name, pack_name)

analyze_vql_query(st, vql_query, artifact_name, pack_name) ==
  [st EXCEPT !.tools_found =
     VqlHits(@, VqlMatches[vql_query], 1, artifact_name, pack_name)]

\* ----------------------------------------------------- analyze_artifact_file

\* ArtifactName with a fixed name in place of the stem.
ArtifactNameUnknown(file) ==
  IF file.yaml.kind = "mapping" /\ file.yaml.name.has_name
  THEN file.yaml.name.name
  ELSE "unknown"

\* artifact_name after the try/except around yaml.safe_load: the mapping's
\* name (or the stem when it has none); the stem when the parser raises, when
\* the value parsed is falsy (kind "empty") and when it is no mapping (kind
\* "other": its .get raises, which the bare except catches).
ArtifactName(file) ==
  IF file.yaml.kind = "mapping" /\ file.yaml.name.has_name
  THEN file.yaml.name.name
  ELSE file.stem

\* `artifact_data and 'sources' in artifact_data`
HasSources(file) ==
  file.yaml.kind = "mapping" /\ file.yaml.sources.kind # "absent"

\* The loop over artifact_data['sources']. `'query' in source` raises
\* TypeError on an integer, which ends the loop (and the file's analysis).
RECURSIVE VqlSources(_, _, _, _, _)
VqlSources(st, entries, k, artifact_name, pack_name) ==
  IF k > Len(entries) THEN st
  ELSE IF entries[k].kind # "mapping" THEN st
  ELSE VqlSources(
         IF entries[k].has_query
         THEN analyze_vql_query(st, entries[k].query, artifact_name, pack_name)
         ELSE st,
         entries, k + 1, artifact_name, pack_name)

\* ------------------------------------------------ prioritize_fork_candidates

\* The attributes of a dict object that are no dunder names. hasattr(d, name)
\* looks for an attribute of the object, not for a key of the dict.
DictAttributes ==
  {"clear", "copy", "fromkeys", "get", "items", "keys", "pop", "popitem",
   "setdefault", "update", "values"}

hasattr(obj, name) == name \in DictAttributes

\* repo_info.get('tool_name'), as a truth value (tool names are not empty).
GetToolName(repo_info) == "tool_name" \in DOMAIN repo_info

\* Factor 2: known tool priority.
ToolFactor(repo_info) ==
  IF hasattr(repo_info, "tool_name") /\ GetToolName(repo_info)
  THEN CASE repo_info.priority = "critical" -> 100
         [] repo_info.priority = "high" -> 50
         [] repo_info.priority = "medium" -> 25
         [] OTHER -> 0
  ELSE 0

\* Factor 3: organization reputation.
OrgFactor(repo_info) ==
  LET org == lower(repo_info.organization)
  IN IF org \in {<<"v","e","l","o","c","i","d","x">>,
                 <<"m","i","c","r","o","s","o","f","t">>,
                 <<"g","o","o","g","l","e">>,
                 <<"m","a","n","d","i","a","n","t">>,
                 <<"f","i","r","e","e","y","e">>}
     THEN 30
     ELSE IF org \in {<<"y","a","m","a","t","o","-","s","e","c","u","r","i","t","y">>,
                      <<"c","o","u","n","t","e","r","c","e","p","t">>,
                      <<"s","i","g","m","a","h","q">>}
     THEN 20
     ELSE 0

\* Factor 4: repository name indicates importance.
NameFactor(repo_info) ==
  LET repo_name == lower(repo_info.repository_name)
  IN IF \E keyword \in {<<"f","o","r","e","n","s","i","c">>,
                        <<"s","e","c","u","r","i","t","y">>,
                        <<"m","a","l","w","a","r","e">>,
                        <<"i","n","c","i","d","e","n","t">>} :
          Contains(repo_name, keyword)
     THEN 15
     ELSE 0

PriorityScore(repo_info) ==
  Len(repo_info.referenced_in_artifacts) * 10
    + ToolFactor(repo_info) + OrgFactor(repo_info) + NameFactor(repo_info)

PriorityCategory(priority_score) ==
  IF priority_score >= 80 THEN "high_priority"
  ELSE IF priority_score >= 40 THEN "medium_priority"
  ELSE "low_priority"

\* repo_info['priority_score'] = ...; repo_info['priority_category'] = ...
Scored(repo_info) ==
  ("priority_score" :> PriorityScore(repo_info))
    @@ ("priority_category" :> PriorityCategory(PriorityScore(repo_info)))
    @@ repo_info

\* AssignCandidates with `if` for `elif` in the thresholds: a record that
\* reaches 80 is appended to the medium list as well.
RECURSIVE AssignCandidatesIfIf(_, _, _)
AssignCandidatesIfIf(repos, candidates, k) ==
  IF k > Len(repos) THEN candidates
  ELSE AssignCandidatesIfIf(
         repos,
         [c \in DOMAIN candidates |->
            IF c = repos[k].priority_category
                 \/ (c = "medium_priority" /\ repos[k].priority_score >= 80)
            THEN Append(candidates[c], repos[k].key)
            ELSE candidates[c]],
         k + 1)

\* The loop over repositories_found.items(): each record is scored and
\* appended to the list of its category. The lists hold the record objects
\* themselves; the model holds their keys.
RECURSIVE AssignCandidates(_, _, _)
AssignCandidates(repos, candidates, k) ==
  IF k > Len(repos) THEN candidates
  ELSE AssignCandidates(
         repos,
         [candidates EXCEPT ![repos[k].priority_category] = Append(@, repos[k].key)],
         k + 1)

\* SortByScore with a record placed after the records of equal score.
RECURSIVE SortByScoreAfterEqual(_, _)
SortByScoreAfterEqual(keys, score) ==
  IF Len(keys) <= 1 THEN keys
  ELSE LET rest == SortByScoreAfterEqual(Tail(keys), score)
           n == Cardinality({i \in 1..Len(rest) : score[rest[i]] >= score[keys[1]]})
       IN SubSeq(rest, 1, n) \o <<keys[1]>> \o SubSeq(rest, n + 1, Len(rest))

\* list.sort(key=score, reverse=True): by descending score, equal scores in
\* their order in the list (the sort is stable, also when reversed).
RECURSIVE SortByScore(_, _)
SortByScore(keys, score) ==
  IF Len(keys) <= 1 THEN keys
  ELSE LET rest == SortByScore(Tail(keys), score)
           n == Cardinality({i \in 1..Len(rest) : score[rest[i]] > score[keys[1]]})
       IN SubSeq(rest, 1, n) \o <<keys[1]>> \o SubSeq(rest, n + 1, Len(rest))

ScoreOf(repos) ==
  [key \in {repos[i].key : i \in 1..Len(repos)} |->
     repos[IndexOf(repos, key)].priority_score]

prioritize_fork_candidates(repos, candidates) ==
  LET scored == Tuple([k \in 1..Len(repos) |-> Scored(repos[k])])
      assigned == AssignCandidates(scored, candidates, 1)
  IN [repositories_found |-> scored,
      fork_candidates |->
        [c \in DOMAIN assigned |-> SortByScore(assigned[c], ScoreOf(scored))]]

\* enrich_repository_info: the placeholder enrichment.
Enriched(repo_info) ==
  ("estimated_importance" :> Len(repo_info.referenced_in_artifacts))
    @@ ("fork_recommended" :>
          ((IF "priority_score" \in DOMAIN repo_info
            THEN repo_info.priority_score ELSE 0) >= 40))
    @@ repo_info

\* ------------------------------------------------------------------ state

VARIABLES
  packs,                    \* the input directory: each expected bundle's state
  pc,                       \* the position of analyze_all_packs
  pack_files,               \* pack_files of analyze_all_packs
  pack_idx,                 \* the position of `for pack_file in pack_files`
  file_idx,                 \* the position of `for artifact_file in artifact_files`
  artifact_packs_analyzed,  \* analysis_results[...], one variable for each key
  total_artifacts,
  repositories_found,
  tools_found,
  dependencies_found,
  organizations_found,
  fork_candidates,
  outputs,                  \* the documents save_analysis_results has written
  error                     \* the exception that ended the run, if any

vars ==
  <<packs, pc, pack_files, pack_idx, file_idx, artifact_packs_analyzed,
    total_artifacts, repositories_found, tools_found, dependencies_found,
    organizations_found, fork_candidates, outputs, error>>

registries ==
  <<repositories_found, tools_found, dependencies_found, organizations_found>>

\* The bundle names analyze_all_packs looks for, in its order.
ExpectedPacks == <<"artifact_pack.zip", "artifact_pack_v2.zip">>

\* Path.stem of a bundle name.
PackStem(pack_name) ==
  IF pack_name = "artifact_pack.zip" THEN "artifact_pack" ELSE "artifact_pack_v2"

\* The files of one bundle, in the order rglob lists them: distinct files of
\* the pool, at most MaxFiles of them.
FileSeqs ==
  UNION {{s \in [1..n -> 1..Len(Files)] : \A i, j \in 1..n : i # j => s[i] # s[j]} :
           n \in 0..MaxFiles}

\* A bundle is absent, or an archive that zipfile cannot extract, or an archive
\* with its configuration files.
PackStates ==
  {[status |-> "missing", files |-> << >>], [status |-> "corrupt", files |-> << >>]}
    \cup {[status |-> "ok", files |-> s] : s \in FileSeqs}

Init ==
  /\ packs \in [{ExpectedPacks[i] : i \in 1..Len(ExpectedPacks)} -> PackStates]
  /\ pc = "start"
  /\ pack_files = << >>
  /\ pack_idx = 1
  /\ file_idx = 1
  /\ artifact_packs_analyzed = << >>
  /\ total_artifacts = 0
  /\ repositories_found = << >>
  /\ tools_found = << >>
  /\ dependencies_found = << >>
  /\ organizations_found = EmptySet
  /\ fork_candidates =
       [high_priority |-> << >>, medium_priority |-> << >>, low_priority |-> << >>]
  /\ outputs = {}
  /\ error = "none"

\* The registries as one value, for the extraction passes.
State ==
  [repositories_found |-> repositories_found,
   tools_found |-> tools_found,
   dependencies_found |-> dependencies_found,
   organizations_found |-> organizations_found]

SetState(st) ==
  /\ repositories_found' = st.repositories_found
  /\ tools_found' = st.tools_found
  /\ dependencies_found' = st.dependencies_found
  /\ organizations_found' = st.organizations_found

CurrentPack == pack_files[pack_idx]

CurrentFile == Files[packs[CurrentPack].files[file_idx]]

InFile == pc \in {"github", "tools", "downloads", "vql"}

\* ---------------------------------------------------------------- actions

\* FindPacks without the return of an empty pack_files.
FindPacksNoReturn ==
  /\ pc = "start"
  /\ pack_files' = SelectSeq(ExpectedPacks, LAMBDA p : packs[p].status # "missing")
  /\ pc' = "pack"
  /\ UNCHANGED <<packs, pack_idx, file_idx, artifact_packs_analyzed,
                 total_artifacts, registries, fork_candidates, outputs, error>>

\* analyze_all_packs up to its loop: the bundles that exist, in order; with
\* none the function returns.
FindPacks ==
  /\ pc = "start"
  /\ pack_files' = SelectSeq(ExpectedPacks, LAMBDA p : packs[p].status # "missing")
  /\ pc' = IF pack_files' = << >> THEN "returned" ELSE "pack"
  /\ UNCHANGED <<packs, pack_idx, file_idx, artifact_packs_analyzed,
                 total_artifacts, registries, fork_candidates, outputs, error>>

\* AnalyzeArtifactPack without the return of the failed extraction: a bundle
\* that cannot be extracted is counted and recorded as one with no files.
AnalyzeArtifactPackNoReturn ==
  /\ pc = "pack"
  /\ pack_idx <= Len(pack_files)
  /\ total_artifacts' = total_artifacts + Len(packs[CurrentPack].files)
  /\ file_idx' = 1
  /\ pc' = IF Len(packs[CurrentPack].files) = 0 THEN "record" ELSE "github"
  /\ UNCHANGED <<packs, pack_files, pack_idx, artifact_packs_analyzed, registries,
                 fork_candidates, outputs, error>>

\* analyze_artifact_pack up to its loop: a failed extraction returns; otherwise
\* the files are counted.
AnalyzeArtifactPack ==
  /\ pc = "pack"
  /\ pack_idx <= Len(pack_files)
  /\ IF packs[CurrentPack].status = "corrupt"
     THEN /\ pack_idx' = pack_idx + 1
          /\ UNCHANGED <<pc, file_idx, total_artifacts>>
     ELSE /\ total_artifacts' = total_artifacts + Len(packs[CurrentPack].files)
          /\ file_idx' = 1
          /\ pc' = IF Len(packs[CurrentPack].files) = 0 THEN "record" ELSE "github"
          /\ UNCHANGED pack_idx
  /\ UNCHANGED <<packs, pack_files, artifact_packs_analyzed, registries,
                 fork_candidates, outputs, error>>

\* The end of analyze_artifact_file: on to the next file of the bundle.
NextFile ==
  /\ file_idx' = file_idx + 1
  /\ pc' = IF file_idx + 1 > Len(packs[CurrentPack].files) THEN "record" ELSE "github"

\* analyze_artifact_file, lines 298-299.
FindGithubRepositories ==
  /\ pc = "github"
  /\ SetState(find_github_repositories(State, CurrentFile.content,
                                       ArtifactName(CurrentFile), CurrentPack))
  /\ pc' = "tools"
  /\ UNCHANGED <<packs, pack_files, pack_idx, file_idx, artifact_packs_analyzed,
                 total_artifacts, fork_candidates, outputs, error>>

\* analyze_artifact_file, lines 301-302.
FindKnownTools ==
  /\ pc = "tools"
  /\ SetState(find_known_tools(State, CurrentFile.content,
                               ArtifactName(CurrentFile), CurrentPack))
  /\ pc' = "downloads"
  /\ UNCHANGED <<packs, pack_files, pack_idx, file_idx, artifact_packs_analyzed,
                 total_artifacts, fork_candidates, outputs, error>>

\* analyze_artifact_file, lines 304-305; an exception of urlparse is caught at
\* line 313, which ends the file.
FindDownloadUrls ==
  /\ pc = "downloads"
  /\ LET r == find_download_urls(State, CurrentFile.content,
                                 ArtifactName(CurrentFile), CurrentPack)
     IN /\ SetState(r.st)
        /\ IF r.raised THEN NextFile
           ELSE pc' = "vql" /\ UNCHANGED file_idx
  /\ UNCHANGED <<packs, pack_files, pack_idx, artifact_packs_analyzed,
                 total_artifacts, fork_candidates, outputs, error>>

\* AnalyzeVqlQueries without the handler of line 313: the exception of a source
\* entry that is no mapping ends the run.
AnalyzeVqlQueriesUncaught ==
  /\ pc = "vql"
  /\ SetState(IF HasSources(CurrentFile)
              THEN VqlSources(State, CurrentFile.yaml.sources.entries, 1,
                              ArtifactName(CurrentFile), CurrentPack)
              ELSE State)
  /\ IF /\ HasSources(CurrentFile)
        /\ \E k \in 1..Len(CurrentFile.yaml.sources.entries) :
             CurrentFile.yaml.sources.entries[k].kind # "mapping"
     THEN pc' = "crashed" /\ error' = "TypeError" /\ UNCHANGED file_idx
     ELSE NextFile /\ UNCHANGED error
  /\ UNCHANGED <<packs, pack_files, pack_idx, artifact_packs_analyzed,
                 total_artifacts, fork_candidates, outputs>>

\* analyze_artifact_file, lines 307-314.
AnalyzeVqlQueries ==
  /\ pc = "vql"
  /\ SetState(IF HasSources(CurrentFile)
              THEN VqlSources(State, CurrentFile.yaml.sources.entries, 1,
                              ArtifactName(CurrentFile), CurrentPack)
              ELSE State)
  /\ NextFile
  /\ UNCHANGED <<packs, pack_files, pack_idx, artifact_packs_analyzed,
                 total_artifacts, fork_candidates, outputs, error>>

\* The end of analyze_artifact_pack: the bundle is recorded. The extraction
\* path is a pathlib.Path.
RecordPack ==
  /\ pc = "record"
  /\ artifact_packs_analyzed' =
       Append(artifact_packs_analyzed,
              [file_name |-> CurrentPack,
               artifacts_count |-> Len(packs[CurrentPack].files),
               extraction_path |->
                 [type |-> "Path", name |-> PackStem(CurrentPack)]])
  /\ pack_idx' = pack_idx + 1
  /\ pc' = "pack"
  /\ UNCHANGED <<packs, pack_files, file_idx, total_artifacts, registries,
                 fork_candidates, outputs, error>>

\* post_process_analysis: the sets become lists, then the scorer and the
\* enrichment run.
PostProcessAnalysis ==
  /\ pc = "pack"
  /\ pack_idx > Len(pack_files)
  /\ LET repos == Tuple([k \in 1..Len(repositories_found) |->
                           [repositories_found[k] EXCEPT
                              !.referenced_in_packs = list(@),
                              !.full_urls_found = list(@)]])
         p == prioritize_fork_candidates(repos, fork_candidates)
     IN /\ repositories_found' =
             [k \in 1..Len(repos) |-> Enriched(p.repositories_found[k])]
        /\ fork_candidates' = p.fork_candidates
  /\ tools_found' =
       [k \in 1..Len(tools_found) |->
          [tools_found[k] EXCEPT
             !.referenced_in_packs = list(@),
             !.patterns_matched = list(@)]]
  /\ dependencies_found' =
       [k \in 1..Len(dependencies_found) |->
          [dependencies_found[k] EXCEPT
             !.urls_found = list(@),
             !.referenced_in_packs = list(@)]]
  /\ organizations_found' = list(organizations_found)
  /\ pc' = "save"
  /\ UNCHANGED <<packs, pack_files, pack_idx, file_idx, artifact_packs_analyzed,
                 total_artifacts, outputs, error>>

\* json.dump accepts lists, dicts, strings and numbers; it raises TypeError on
\* a set and on a Path.
Serializable(v) == v.type = "list"

JsonSerializable ==
  /\ \A i \in 1..Len(artifact_packs_analyzed) :
       Serializable(artifact_packs_analyzed[i].extraction_path)
  /\ \A i \in 1..Len(repositories_found) :
       /\ Serializable(repositories_found[i].referenced_in_packs)
       /\ Serializable(repositories_found[i].full_urls_found)
  /\ \A i \in 1..Len(tools_found) :
       /\ Serializable(tools_found[i].referenced_in_packs)
       /\ Serializable(tools_found[i].patterns_matched)
  /\ \A i \in 1..Len(dependencies_found) :
       /\ Serializable(dependencies_found[i].urls_found)
       /\ Serializable(dependencies_found[i].referenced_in_packs)
  /\ Serializable(organizations_found)

\* The documents of save_analysis_results, in the order it writes them.
Documents == <<"json", "summary", "fork_plan">>

\* save_analysis_results: json.dump of analysis_results, then the summary and
\* the fork plan. A TypeError of json.dump and an OSError of a write end the
\* run; the document being written is then incomplete.
SaveAnalysisResults ==
  /\ pc = "save"
  /\ \/ /\ ~JsonSerializable
        /\ outputs' = {}
        /\ error' = "TypeError"
        /\ pc' = "crashed"
     \/ /\ JsonSerializable
        /\ \E n \in 0..Len(Documents) :
             /\ outputs' = {Documents[i] : i \in 1..n}
             /\ error' = IF n < Len(Documents) THEN "OSError" ELSE "none"
             /\ pc' = IF n < Len(Documents) THEN "crashed" ELSE "returned"
  /\ UNCHANGED <<packs, pack_files, pack_idx, file_idx, artifact_packs_analyzed,
                 total_artifacts, registries, fork_candidates>>

Next ==
  \/ FindPacks
  \/ AnalyzeArtifactPack
  \/ FindGithubRepositories
  \/ FindKnownTools
  \/ FindDownloadUrls
  \/ AnalyzeVqlQueries
  \/ RecordPack
  \/ PostProcessAnalysis
  \/ SaveAnalysisResults

Spec == Init /\ [][Next]_vars


\* ------------------------------------------------- a bundle handed in twice

\* Each element of s twice in a row.
Twice(s) == [i \in 1..(2 * Len(s)) |-> s[(i + 1) \div 2]]

\* A caller that hands every bundle it finds to analyze_artifact_pack twice
\* before post_process_analysis: the loop of analyze_all_packs over a list
\* that names each bundle twice.
FindPacksTwice ==
  /\ pc = "start"
  /\ pack_files' =
       Twice(SelectSeq(ExpectedPacks, LAMBDA p : packs[p].status # "missing"))
  /\ pc' = IF pack_files' = << >> THEN "returned" ELSE "pack"
  /\ UNCHANGED <<packs, pack_idx, file_idx, artifact_packs_analyzed,
                 total_artifacts, registries, fork_candidates, outputs, error>>

NextTwice ==
  \/ FindPacksTwice
  \/ AnalyzeArtifactPack
  \/ FindGithubRepositories
  \/ FindKnownTools
  \/ FindDownloadUrls
  \/ AnalyzeVqlQueries
  \/ RecordPack
  \/ PostProcessAnalysis
  \/ SaveAnalysisResults

SpecTwice == Init /\ [][NextTwice]_vars

\* ------------------------------------------------------------- properties

BucketNames == {"high_priority", "medium_priority", "low_priority"}

\* post_process_analysis has run.
PostProcessed ==
  pc = "save" \/ pc = "crashed" \/ (pc = "returned" /\ pack_files # << >>)

\* analyze_all_packs is between two bundles, or past the last.
BetweenBundles == pc \in {"pack", "save", "crashed", "returned"}

\* The documents analysed when the run is between bundles: <<position of the
\* bundle in pack_files, position of the file in the bundle>>.
AnalysedDocuments ==
  UNION {{<<p, i>> : i \in 1..Len(packs[pack_files[p]].files)} :
           p \in 1..(pack_idx - 1)}

DocumentFile(d) == packs[pack_files[d[1]]].files[d[2]]

DocumentPack(d) == pack_files[d[1]]

DocumentName(d) == ArtifactName(Files[DocumentFile(d)])

\* The identities the GitHub patterns sight in each file, read off the matches.
GithubKeys ==
  [f \in 1..Len(Files) |->
     {RepoKey(GithubMatches[f][k].group1,
              clean_repository_name(GithubMatches[f][k].group2)) :
        k \in 1..Len(GithubMatches[f])}]

\* The tools whose patterns hit in each file and whose catalog repository is a
\* GitHub link, each with the identity of that repository.
ToolSightings ==
  [f \in 1..Len(Files) |->
     {[tool_name |-> known_tools[t].tool_name,
       key |-> RepoKey(ToolRepos[t].repo_match[1][1], ToolRepos[t].repo_match[1][2])] :
        t \in {t \in {ToolMatches[f][k][1] : k \in 1..Len(ToolMatches[f])} :
                 ToolRepos[t].is_github /\ Len(ToolRepos[t].repo_match) = 1}}]

\* The identities sighted in each file, by a URL or by a known tool.
SightedKeys ==
  [f \in 1..Len(Files) |->
     GithubKeys[f] \cup {s.key : s \in ToolSightings[f]}]

\* The analysed documents in which an identity was sighted.
Sightings(key) ==
  {d \in AnalysedDocuments : key \in SightedKeys[DocumentFile(d)]}

\* How often a key occurs in a list of keys.
Occurrences(keys, key) == Cardinality({i \in 1..Len(keys) : keys[i] = key})

\* C1: after post-processing every repository record is in exactly one of the
\* three buckets, exactly once, and that bucket is the one its
\* priority_category field names; the buckets hold nothing else.
C1_BucketsPartitionRecords ==
  PostProcessed =>
    /\ \A k \in 1..Len(repositories_found) : \A b \in BucketNames :
         Occurrences(fork_candidates[b], repositories_found[k].key)
           = IF b = repositories_found[k].priority_category THEN 1 ELSE 0
    /\ \A b \in BucketNames : \A i \in 1..Len(fork_candidates[b]) :
         HasKey(repositories_found, fork_candidates[b][i])

\* A run whose records fall into all three buckets.
C1_Witness ==
  /\ PostProcessed
  /\ \A b \in BucketNames : Len(fork_candidates[b]) > 0

\* The tier bonus of the reference sum, for a record with a tool association.
TierBonus(repo_info) ==
  IF "tool_name" \in DOMAIN repo_info
  THEN CASE repo_info.priority = "critical" -> 100
         [] repo_info.priority = "high" -> 50
         [] repo_info.priority = "medium" -> 25
         [] OTHER -> 0
  ELSE 0

ReferenceScore(repo_info) ==
  10 * Len(repo_info.referenced_in_artifacts)
    + TierBonus(repo_info) + OrgFactor(repo_info) + NameFactor(repo_info)

ReferenceBucket(score) ==
  IF score >= 80 THEN "high_priority"
  ELSE IF score >= 40 THEN "medium_priority"
  ELSE "low_priority"

\* C2: the priority_score of every repository record is the reference sum,
\* 10 for each referencing document, the tier bonus of a tool-derived record,
\* the organization bonus and the name bonus, and its bucket is the one the
\* thresholds 80 and 40 give that sum.
C2_ScoreIsReferenceSum ==
  PostProcessed =>
    \A k \in 1..Len(repositories_found) :
      /\ repositories_found[k].priority_score
           = ReferenceScore(repositories_found[k])
      /\ repositories_found[k].priority_category
           = ReferenceBucket(ReferenceScore(repositories_found[k]))

SigmaUrl ==
  <<"h","t","t","p","s",":","/","/","g","i","t","h","u","b",".","c","o","m","/",
    "S","i","g","m","a","H","Q","/","s","i","g","m","a","/","b","l","o","b","/",
    "m","a","s","t","e","r","/","r","u","l","e","s","/","x",".","y","m","l">>

SigmaKey == <<"S","i","g","m","a","H","Q","/","s","i","g","m","a">>

\* A document with the URL of the scenario and the word sigma was analysed.
SigmaDocumentAnalysed ==
  \E d \in AnalysedDocuments :
    /\ Contains(Files[DocumentFile(d)].content, SigmaUrl)
    /\ Contains(Files[DocumentFile(d)].content, <<"s","i","g","m","a">>)

\* C3: once a document with the URL .../SigmaHQ/sigma/blob/master/rules/x.yml
\* and the word sigma was analysed, there is exactly one record for
\* SigmaHQ/sigma; it has tool association sigma and tier critical, a score of
\* at least 110, and is in the high-priority bucket.
C3_SigmaScenario ==
  (PostProcessed /\ SigmaDocumentAnalysed) =>
    /\ Cardinality({k \in 1..Len(repositories_found) :
                      repositories_found[k].key = SigmaKey}) = 1
    /\ \A k \in 1..Len(repositories_found) :
         repositories_found[k].key = SigmaKey =>
           /\ "tool_name" \in DOMAIN repositories_found[k]
           /\ repositories_found[k].tool_name = "sigma"
           /\ repositories_found[k].priority = "critical"
           /\ repositories_found[k].priority_score >= 110
           /\ repositories_found[k].priority_category = "high_priority"
           /\ Occurrences(fork_candidates["high_priority"], SigmaKey) = 1

\* C4: a run that found at least one bundle and met no write error ends with
\* all three documents written: the serialized state, the summary and the
\* fork plan.
C4_AllOutputsWritten ==
  (pc \in {"returned", "crashed"} /\ pack_files # << >> /\ error # "OSError") =>
    outputs = {Documents[i] : i \in 1..Len(Documents)}

\* C5: between bundles the registry has one record for each identity sighted
\* so far and no other; the record's referenced_in_packs holds the bundles of
\* the documents that sighted it, and its referenced_in_artifacts the names of
\* those documents, each once.
C5_OneRecordPerIdentity ==
  BetweenBundles =>
    /\ \A i, j \in 1..Len(repositories_found) :
         repositories_found[i].key = repositories_found[j].key => i = j
    /\ {repositories_found[i].key : i \in 1..Len(repositories_found)}
         = UNION {SightedKeys[DocumentFile(d)] : d \in AnalysedDocuments}
    /\ \A i \in 1..Len(repositories_found) :
         /\ repositories_found[i].referenced_in_packs.elems
              = {DocumentPack(d) : d \in Sightings(repositories_found[i].key)}
         /\ \A a, b \in 1..Len(repositories_found[i].referenced_in_artifacts) :
              repositories_found[i].referenced_in_artifacts[a]
                = repositories_found[i].referenced_in_artifacts[b] => a = b
         /\ {repositories_found[i].referenced_in_artifacts[a] :
               a \in 1..Len(repositories_found[i].referenced_in_artifacts)}
              = {DocumentName(d) : d \in Sightings(repositories_found[i].key)}

\* Both bundles reference a repository, and one of its documents matches more
\* than one URL text.
C5_Witness ==
  /\ BetweenBundles
  /\ \E i \in 1..Len(repositories_found) :
       /\ Cardinality(repositories_found[i].referenced_in_packs.elems) = 2
       /\ Cardinality(repositories_found[i].full_urls_found.elems) >= 2
       /\ Cardinality(Sightings(repositories_found[i].key)) >= 2

\* What the claim of idempotence is about: of every record its key, its
\* referenced_in_artifacts, its referenced_in_packs and its set of matched
\* strings.
References ==
  <<[k \in 1..Len(repositories_found) |->
       <<repositories_found[k].key,
         repositories_found[k].referenced_in_artifacts,
         repositories_found[k].referenced_in_packs,
         repositories_found[k].full_urls_found>>],
    [k \in 1..Len(tools_found) |->
       <<tools_found[k].key,
         tools_found[k].referenced_in_artifacts,
         tools_found[k].referenced_in_packs,
         tools_found[k].patterns_matched>>],
    [k \in 1..Len(dependencies_found) |->
       <<dependencies_found[k].key,
         dependencies_found[k].referenced_in_artifacts,
         dependencies_found[k].referenced_in_packs,
         dependencies_found[k].urls_found>>]>>

\* The bundle being processed is the one processed just before.
Repeated ==
  /\ pc \in {"pack", "github", "tools", "downloads", "vql", "record"}
  /\ pack_idx > 1
  /\ pack_idx <= Len(pack_files)
  /\ pack_files[pack_idx] = pack_files[pack_idx - 1]

\* C6: no step of the second processing of a bundle changes the records'
\* referenced_in_artifacts, referenced_in_packs or matched strings, or adds a
\* record.
C6_SecondProcessingChangesNothing ==
  [][Repeated => References' = References]_vars

\* The second processing of a bundle is complete, and the registry has
\* repository, tool and dependency records.
C6_Witness ==
  /\ Repeated
  /\ pc = "record"
  /\ Len(repositories_found) > 0
  /\ Len(tools_found) > 0
  /\ Len(dependencies_found) > 0

\* C7: the length of a record's referenced_in_artifacts is the number of
\* distinct documents that sighted it, also when documents share a name.
C7_CountIsDistinctDocuments ==
  BetweenBundles =>
    \A i \in 1..Len(repositories_found) :
      Len(repositories_found[i].referenced_in_artifacts)
        = Cardinality(Sightings(repositories_found[i].key))

\* C8: in every state each tool record whose catalog repository is a GitHub
\* link has a repository record under that identity, with the tool's tier and
\* language and with at least the tool's referencing documents and bundles.
C8_ToolHasRepository ==
  \A k \in 1..Len(tools_found) :
    LET found == ToolRepos[ToolIndex(tools_found[k].key)]
    IN (found.is_github /\ Len(found.repo_match) = 1) =>
         \E i \in 1..Len(repositories_found) :
           /\ repositories_found[i].key
                = RepoKey(found.repo_match[1][1], found.repo_match[1][2])
           /\ repositories_found[i].priority = tools_found[k].priority
           /\ repositories_found[i].language = tools_found[k].language
           /\ \A a \in 1..Len(tools_found[k].referenced_in_artifacts) :
                InList(repositories_found[i].referenced_in_artifacts,
                       tools_found[k].referenced_in_artifacts[a])
           /\ tools_found[k].referenced_in_packs.elems
                \subseteq repositories_found[i].referenced_in_packs.elems

\* C9: the repository record of every known-tool hit carries the tool's name
\* as its tool_name, whether the hit created the record or found it.
C9_TagWhicheverCameFirst ==
  BetweenBundles =>
    \A d \in AnalysedDocuments : \A s \in ToolSightings[DocumentFile(d)] :
      \E i \in 1..Len(repositories_found) :
        /\ repositories_found[i].key = s.key
        /\ "tool_name" \in DOMAIN repositories_found[i]
        /\ repositories_found[i].tool_name = s.tool_name

\* C10: find_github_repositories leaves the tier and the language of every
\* record that exists as they are, so a tier a known-tool sighting has set
\* survives every later URL sighting.
C10_UrlSightingKeepsTier ==
  [][pc = "github" =>
       \A i \in 1..Len(repositories_found) :
         /\ repositories_found'[i].key = repositories_found[i].key
         /\ repositories_found'[i].priority = repositories_found[i].priority
         /\ repositories_found'[i].language = repositories_found[i].language]_vars

\* The repository pass has just sighted, in a later document, an identity
\* whose tier a known-tool sighting had set.
C10_Witness ==
  /\ pc = "tools"
  /\ \E i \in 1..Len(repositories_found) :
       /\ repositories_found[i].priority # "unknown"
       /\ repositories_found[i].key
            \in GithubKeys[packs[CurrentPack].files[file_idx]]

\* s is a prefix of t.
IsPrefix(s, t) == Len(s) <= Len(t) /\ SubSeq(t, 1, Len(s)) = s

\* The reference lists of a record have only grown from old to new.
OnlyAppended(old, new) ==
  /\ IsPrefix(old.referenced_in_artifacts, new.referenced_in_artifacts)
  /\ old.referenced_in_packs.elems \subseteq new.referenced_in_packs.elems
  /\ old.full_urls_found.elems \subseteq new.full_urls_found.elems

\* The identity of a record is as it was.
SameIdentity(old, new) ==
  /\ new.key = old.key
  /\ new.organization = old.organization
  /\ new.repository_name = old.repository_name
  /\ new.repository_url = old.repository_url

SameTier(old, new) ==
  /\ new.priority = old.priority
  /\ new.language = old.language

\* The tier and the language of a record are those of the catalog entry of a
\* tool that the current file sights under the record's identity.
TierOfSightedTool(new) ==
  \E s \in ToolSightings[packs[CurrentPack].files[file_idx]] :
    /\ s.key = new.key
    /\ new.priority = known_tools[ToolIndex(s.tool_name)].priority
    /\ new.language = known_tools[ToolIndex(s.tool_name)].language

\* C11 as stated: every extraction step keeps the records that exist, only
\* appends to their reference lists, and leaves organization, repository
\* name, canonical URL, priority tier and language as they were.
C11_LaterHitsOnlyAppend ==
  [][InFile =>
       /\ Len(repositories_found') >= Len(repositories_found)
       /\ \A i \in 1..Len(repositories_found) :
            /\ OnlyAppended(repositories_found[i], repositories_found'[i])
            /\ SameIdentity(repositories_found[i], repositories_found'[i])
            /\ SameTier(repositories_found[i], repositories_found'[i])]_vars

\* C11 as amended: every extraction step keeps the records that exist, only
\* appends to their reference lists and leaves organization, repository name
\* and canonical URL as they were; the repository pass leaves tier and
\* language too, and the known-tool pass leaves them or sets them to those of
\* the tool it sights under the record's identity.
C11_LaterWritersAppendAndToolSetsTier ==
  [][InFile =>
       /\ Len(repositories_found') >= Len(repositories_found)
       /\ \A i \in 1..Len(repositories_found) :
            /\ OnlyAppended(repositories_found[i], repositories_found'[i])
            /\ SameIdentity(repositories_found[i], repositories_found'[i])
            /\ \/ SameTier(repositories_found[i], repositories_found'[i])
               \/ pc = "tools" /\ TierOfSightedTool(repositories_found'[i])]_vars

\* The known-tool pass has just hit a record that a repository sighting had
\* created with full URLs, and has set its tier.
C11_Witness ==
  /\ pc = "downloads"
  /\ \E i \in 1..Len(repositories_found) :
       /\ "tool_name" \notin DOMAIN repositories_found[i]
       /\ repositories_found[i].priority # "unknown"
       /\ repositories_found[i].full_urls_found.elems # {}
       /\ \E s \in ToolSightings[packs[CurrentPack].files[file_idx]] :
            s.key = repositories_found[i].key

\* analyze_all_packs has ended, by its return or by an exception.
Ended == pc \in {"returned", "crashed"}

\* The step about to be taken is analyze_artifact_pack on a bundle whose
\* extraction fails.
AtFailingBundle ==
  /\ pc = "pack"
  /\ pack_idx <= Len(pack_files)
  /\ packs[CurrentPack].status = "corrupt"

\* The bundles among the first n of pack_files that were extracted.
ExtractedBundles(n) ==
  SelectSeq(SubSeq(pack_files, 1, n), LAMBDA p : packs[p].status = "ok")

RECURSIVE FileCount(_)
\* The number of configuration files in a list of bundles.
FileCount(bundles) ==
  IF bundles = << >> THEN 0
  ELSE Len(packs[Head(bundles)].files) + FileCount(Tail(bundles))

\* The conversion of the sets to lists, the first thing post-processing does,
\* was done.
SetsConverted == organizations_found.type = "list"

\* The step of a failing bundle changes no count and no registry and moves on
\* to the next bundle.
FailingBundleContributesNothing ==
  AtFailingBundle =>
    /\ total_artifacts' = total_artifacts
    /\ artifact_packs_analyzed' = artifact_packs_analyzed
    /\ registries' = registries
    /\ fork_candidates' = fork_candidates
    /\ pack_idx' = pack_idx + 1
    /\ pc' = "pack"

\* Between bundles, the bundles looked at are the present ones in the expected
\* order, the extracted ones among those passed are recorded in order with
\* their file counts, total_artifacts is the sum of those counts, and every
\* identity their documents sight has a record.
PresentBundlesProcessedInOrder ==
  BetweenBundles =>
    /\ pack_files = SelectSeq(ExpectedPacks, LAMBDA p : packs[p].status # "missing")
    /\ Len(artifact_packs_analyzed) = Len(ExtractedBundles(pack_idx - 1))
    /\ \A i \in 1..Len(artifact_packs_analyzed) :
         /\ artifact_packs_analyzed[i].file_name = ExtractedBundles(pack_idx - 1)[i]
         /\ artifact_packs_analyzed[i].artifacts_count
              = Len(packs[artifact_packs_analyzed[i].file_name].files)
    /\ total_artifacts = FileCount(ExtractedBundles(pack_idx - 1))
    /\ \A d \in AnalysedDocuments : \A key \in SightedKeys[DocumentFile(d)] :
         HasKey(repositories_found, key)
    /\ Ended => pack_idx = Len(pack_files) + 1

\* C12 as stated: a missing bundle and a bundle whose extraction fails are
\* skipped; the failing bundle changes neither total_artifacts nor
\* artifact_packs_analyzed nor a registry, every other present bundle is
\* processed in order, and the run proceeds to post-processing.
C12_SkippedBundlesAndPostProcessing ==
  /\ [][FailingBundleContributesNothing]_vars
  /\ [](PresentBundlesProcessedInOrder /\ (Ended => SetsConverted))

\* C12 as amended: the same, with post-processing reached whenever at least
\* one bundle is present.
C12_SkippedBundlesAndPostProcessingIfPresent ==
  /\ [][FailingBundleContributesNothing]_vars
  /\ [](PresentBundlesProcessedInOrder
          /\ ((Ended /\ pack_files # << >>) => SetsConverted))

\* A run that skipped a failing first bundle, analysed the documents of the
\* second and post-processed.
C12_Witness ==
  /\ Ended
  /\ packs[ExpectedPacks[1]].status = "corrupt"
  /\ packs[ExpectedPacks[2]].status = "ok"
  /\ Len(artifact_packs_analyzed) = 1
  /\ artifact_packs_analyzed[1].file_name = ExpectedPacks[2]
  /\ total_artifacts > 0
  /\ Len(repositories_found) > 0
  /\ SetsConverted

\* Analysing the file raises an exception that line 313 catches: a source
\* entry that is no mapping.
RaisesInDocument(f) ==
  /\ HasSources(Files[f])
  /\ \E k \in 1..Len(Files[f].yaml.sources.entries) :
       Files[f].yaml.sources.entries[k].kind # "mapping"

\* C13: an exception raised while a document is analysed ends that document
\* only: between bundles, every identity sighted in any analysed document,
\* those after a raising document included, has a record that lists the
\* document and its bundle; every extracted bundle passed is recorded with its
\* file count; and a run that has ended has passed every bundle.
C13_DocumentErrorIsContained ==
  BetweenBundles =>
    /\ \A d \in AnalysedDocuments : \A key \in SightedKeys[DocumentFile(d)] :
         /\ HasKey(repositories_found, key)
         /\ InList(repositories_found[IndexOf(repositories_found, key)]
                     .referenced_in_artifacts, DocumentName(d))
         /\ DocumentPack(d)
              \in repositories_found[IndexOf(repositories_found, key)]
                    .referenced_in_packs.elems
    /\ \A p \in 1..(pack_idx - 1) :
         packs[pack_files[p]].status = "ok" =>
           \E i \in 1..Len(artifact_packs_analyzed) :
             /\ artifact_packs_analyzed[i].file_name = pack_files[p]
             /\ artifact_packs_analyzed[i].artifacts_count
                  = Len(packs[pack_files[p]].files)
    /\ Ended => pack_idx = Len(pack_files) + 1

\* A run in which the first document of the first bundle raised, and a later
\* document of that bundle and a document of the next bundle left records that
\* the raising document did not sight.
C13_Witness ==
  /\ Ended
  /\ Len(pack_files) = 2
  /\ Len(artifact_packs_analyzed) = 2
  /\ Len(packs[pack_files[1]].files) = 2
  /\ RaisesInDocument(packs[pack_files[1]].files[1])
  /\ \E key \in SightedKeys[packs[pack_files[1]].files[2]] :
       /\ key \notin SightedKeys[packs[pack_files[1]].files[1]]
       /\ HasKey(repositories_found, key)
  /\ Len(packs[pack_files[2]].files) > 0
  /\ \E key \in SightedKeys[packs[pack_files[2]].files[1]] :
       /\ key \notin SightedKeys[packs[pack_files[1]].files[1]]
       /\ key \notin SightedKeys[packs[pack_files[1]].files[2]]
       /\ HasKey(repositories_found, key)

\* The structured parse of the file fails: the parser raises, or the parsed
\* value has no mapping's get.
ParseFails(f) == Files[f].yaml.kind \in {"error", "other"}

\* The download domains the raw text of each file yields.
DownloadDomains ==
  [f \in 1..Len(Files) |->
     {netloc(DownloadMatches[f][k].group0) : k \in 1..Len(DownloadMatches[f])}]

\* The record of key in a registry lists the document name and the bundle.
ListsReference(registry, key, artifact_name, pack_name) ==
  /\ HasKey(registry, key)
  /\ InList(registry[IndexOf(registry, key)].referenced_in_artifacts, artifact_name)
  /\ pack_name \in registry[IndexOf(registry, key)].referenced_in_packs.elems

\* The hits of the three raw-text passes on document d are recorded under the
\* base name of its file.
RawTextHitsUnderStem(d) ==
  /\ \A key \in SightedKeys[DocumentFile(d)] :
       ListsReference(repositories_found, key,
                      Files[DocumentFile(d)].stem, DocumentPack(d))
  /\ \A k \in 1..Len(ToolMatches[DocumentFile(d)]) :
       ListsReference(tools_found,
                      known_tools[ToolMatches[DocumentFile(d)][k][1]].tool_name,
                      Files[DocumentFile(d)].stem, DocumentPack(d))
  /\ \A domain \in DownloadDomains[DocumentFile(d)] :
       ListsReference(dependencies_found, domain,
                      Files[DocumentFile(d)].stem, DocumentPack(d))

\* C14: for a file whose structured parse fails, the hits of the repository,
\* known-tool and download passes on its raw text are recorded under the
\* file's base name, and the step of the nested query pass changes no
\* registry.
C14_ParseFailureFallsBackToRawText ==
  /\ [](BetweenBundles =>
          \A d \in AnalysedDocuments :
            ParseFails(DocumentFile(d)) => RawTextHitsUnderStem(d))
  /\ [][(pc = "vql" /\ ParseFails(packs[CurrentPack].files[file_idx]))
          => registries' = registries]_vars

\* A run that analysed a file with invalid syntax and a file whose parsed
\* value is a string, with a repository, a tool and a download domain recorded
\* under their base names.
C14_Witness ==
  /\ Ended
  /\ \E d, e \in AnalysedDocuments :
       /\ Files[DocumentFile(d)].yaml.kind = "error"
       /\ Files[DocumentFile(e)].yaml.kind = "other"
       /\ GithubKeys[DocumentFile(d)] # {}
       /\ GithubKeys[DocumentFile(e)] # {}
       /\ Len(ToolMatches[DocumentFile(d)]) > 0
       /\ DownloadDomains[DocumentFile(d)] # {}
       /\ RawTextHitsUnderStem(d)
       /\ RawTextHitsUnderStem(e)

\* The file is parsed to a mapping that has a list of sources.
ParsedWithSources(f) ==
  Files[f].yaml.kind = "mapping" /\ Files[f].yaml.sources.kind = "list"

\* The positions of the source entries of a file that carry a query string.
QueryEntries(f) ==
  {e \in 1..Len(Files[f].yaml.sources.entries) :
     /\ Files[f].yaml.sources.entries[e].kind = "mapping"
     /\ Files[f].yaml.sources.entries[e].has_query}

\* The analysis of the file reaches source entry e: the download pass did not
\* raise, and no entry before e is one that `'query' in source` raises on.
Reached(f, e) ==
  /\ \A k \in 1..Len(DownloadMatches[f]) :
       ~UrlparseRaises(DownloadMatches[f][k].group0)
  /\ \A j \in 1..(e - 1) : Files[f].yaml.sources.entries[j].kind = "mapping"

\* Every executable of the query of entry e of document d that corresponds to
\* a catalog tool has that tool's record, with the document and its bundle as
\* references and the executable among patterns_matched.
QueryHitsRecorded(d, e) ==
  \A h \in 1..Len(VqlMatches[Files[DocumentFile(d)].yaml.sources.entries[e].query]) :
    /\ ListsReference(
         tools_found,
         known_tools[VqlMatches[Files[DocumentFile(d)].yaml.sources.entries[e].query][h].tool]
           .tool_name,
         DocumentName(d), DocumentPack(d))
    /\ VqlMatches[Files[DocumentFile(d)].yaml.sources.entries[e].query][h].executable
         \in tools_found[IndexOf(
               tools_found,
               known_tools[VqlMatches[Files[DocumentFile(d)].yaml.sources.entries[e].query][h].tool]
                 .tool_name)].patterns_matched.elems

OsqueryPath ==
  <<"C",":","\\","W","i","n","d","o","w","s","\\","S","y","s","t","e","m","3","2",
    "\\","o","s","q","u","e","r","y","i",".","e","x","e">>

BucketScore(key) ==
  repositories_found[IndexOf(repositories_found, key)].priority_score

\* C16: after post-processing, in each bucket a record that stands before
\* another has a score at least as high, and with equal scores it also stands
\* before the other in repositories_found.
C16_BucketsSortedStably ==
  PostProcessed =>
    \A b \in BucketNames : \A i, j \in 1..Len(fork_candidates[b]) :
      i < j =>
        /\ BucketScore(fork_candidates[b][i]) >= BucketScore(fork_candidates[b][j])
        /\ BucketScore(fork_candidates[b][i]) = BucketScore(fork_candidates[b][j])
             => IndexOf(repositories_found, fork_candidates[b][i])
                  < IndexOf(repositories_found, fork_candidates[b][j])

\* A post-processed run with a bucket that holds two records of equal score
\* and a record of lower score that was encountered before them.
C16_Witness ==
  /\ PostProcessed
  /\ \E b \in BucketNames : \E i, j, k \in 1..Len(fork_candidates[b]) :
       /\ i < j
       /\ j < k
       /\ BucketScore(fork_candidates[b][i]) = BucketScore(fork_candidates[b][j])
       /\ BucketScore(fork_candidates[b][j]) > BucketScore(fork_candidates[b][k])
       /\ IndexOf(repositories_found, fork_candidates[b][k])
            < IndexOf(repositories_found, fork_candidates[b][i])

\* C17: in every state organizations_found holds exactly the organizations of
\* the records of repositories_found, those created by a known-tool hit
\* included.
C17_OrganizationsOfAllRecords ==
  organizations_found.elems
    = {repositories_found[i].organization : i \in 1..Len(repositories_found)}

\* Neither expected bundle is in the input directory.
NoBundlePresent ==
  \A i \in 1..Len(ExpectedPacks) : packs[ExpectedPacks[i]].status = "missing"

\* C18: with neither bundle present, once analyze_all_packs has looked for
\* them it has returned: the registries, the buckets and the counts are as
\* initialized, the sets were not converted, and no document was written.
C18_NoBundleNoProcessing ==
  (NoBundlePresent /\ pc # "start") =>
    /\ pc = "returned"
    /\ pack_files = << >>
    /\ artifact_packs_analyzed = << >>
    /\ total_artifacts = 0
    /\ repositories_found = << >>
    /\ tools_found = << >>
    /\ dependencies_found = << >>
    /\ organizations_found = EmptySet
    /\ fork_candidates =
         [high_priority |-> << >>, medium_priority |-> << >>, low_priority |-> << >>]
    /\ outputs = {}
    /\ error = "none"

\* The run with neither bundle present has returned.
C18_Witness == NoBundlePresent /\ pc = "returned"
====
